---- MODULE Spec2Model ----
(***************************************************************************)
(* Model of the eagerx_tutorials support code:                             *)
(*   helper.py           run_command, setup_notebook,                      *)
(*                       deprecated_setup_notebook, record_video, evaluate *)
(*   pendulum/objects.py Pendulum.agnostic, Pendulum.spec,                 *)
(*                       Pendulum.ode_bridge                               *)
(* Three specifications share the module: SpecVideo (evaluate and          *)
(* record_video), SpecNotebook (run_command and the two notebook set-ups)  *)
(* and SpecPendulum (the object specification and its bridge wiring).      *)
(***************************************************************************)
EXTENDS Integers, Sequences, FiniteSets, TLC

VARIABLES
    \* ---- evaluate / record_video (helper.py) ----
    pc,               \* position in the running function
    n_eval_episodes,  \* evaluate argument
    episode_length,   \* evaluate argument
    video_rate,       \* evaluate argument: None or Some(rate)
    video_length,     \* record_video argument
    i,                \* evaluate: episode index of the outer loop
    step_,            \* evaluate: _step; record_video: _ of the loop
    obs,              \* the last observation held by the function
    done,             \* the done flag returned by the last env.step
    img_array,        \* evaluate: the frame buffer of the running episode
    episodes_done,    \* evaluate: len(episodic_rewards); the reward values
                      \* steer nothing and are left out
    env_calls,        \* number of reset/step calls the environment has served
    calls,            \* the calls made on env / model, in order
    rendered,         \* per episode: the frames env.render returned, in order
    written,          \* per episode: the frames handed to out.write, in order
    recorder,         \* record_video: the VecVideoRecorder's fields
    videos,           \* record_video: the videos the recorder has started
    \* ---- run_command / setup_notebook / deprecated_setup_notebook ----
    nb_fn,            \* the set-up function called last
    nb_pc,            \* position in that function
    on_colab,         \* "google.colab" in str(get_ipython())
    ncalls,           \* set-up calls made in this notebook session
    importable,       \* whether `import eagerx_gui` succeeded in this call
    environ,          \* os.environ
    reload_before,    \* os.environ["EAGERX_RELOAD"] when the call started
    trace,            \* this call's effects on the system, in order
    stdout,           \* what this call printed on stdout
    stderr,           \* what this call printed on stderr
    proc,             \* the last subprocess run_command waited for
    processes,        \* background processes started in this session
    ros_calls,        \* calls of deprecated_setup_notebook so far
    \* ---- Pendulum (pendulum/objects.py) ----
    pen_pc,           \* "new", "specified" (after spec), "bridged"
    args,             \* the arguments Pendulum.spec was called with
    config,           \* spec.config
    rates,            \* spec.sensors.*.rate and spec.actuators.*.rate
    nodes,            \* the engine nodes added to the graph
    connections       \* the graph.connect calls, in order

vidVars == <<pc, n_eval_episodes, episode_length, video_rate, video_length, i,
             step_, obs, done, img_array, episodes_done, env_calls, calls,
             rendered, written, recorder, videos>>

nbVars == <<nb_fn, nb_pc, on_colab, ncalls, importable, environ, reload_before,
            trace, stdout, stderr, proc, processes, ros_calls>>

penVars == <<pen_pc, args, config, rates, nodes, connections>>

vars == <<vidVars, nbVars, penVars>>

----------------------------------------------------------------------------
\* Bounds of the model
MaxEpisodes == 2
MaxLen == 2
MaxVideoLength == 3

\* Python's None and a present value
None == [some |-> FALSE]
Some(v) == [some |-> TRUE, val |-> v]

\* The frame rate the notebooks pass to evaluate
VideoRates == {None, Some(30)}

\* Shapes env.render("rgb_array") can return: (height, width, channels).
\* An environment whose rendering is switched off returns an empty image.
Shapes == {<<0, 0, 3>>, <<2, 0, 3>>, <<2, 4, 3>>}

----------------------------------------------------------------------------
\* The environment and the model, as evaluate and record_video use them.

\* env.reset() / env.step(action): every call returns a fresh observation
EnvObs(n) == n + 1

\* model.predict(obs, deterministic=True): the action is a function of obs
Predict(o) == <<"action", o>>

\* range(n) of a for loop: the loop body runs while the index is below n
LoopContinuesStopOnDone(k, n, d) == k < n /\ ~d
LoopContinues(k, n, d) == k < n

\* `0 not in img.shape`
KeepFrameAlways(img) == TRUE
KeepFrame(img) == \A d \in 1..Len(img.shape) : img.shape[d] # 0

\* `img_array = []` at the start of every episode
NewImgArrayKept(old) == old
NewImgArray(old) == <<>>

\* cv2.cvtColor(img, cv2.COLOR_RGB2BGR): same frame, channel order swapped
cvtColor(img) == [img EXCEPT !.order = IF @ = "RGB" THEN "BGR" ELSE "RGB"]

\* env.render("rgb_array") after the n-th environment call
Render(n, shape) == [id |-> n, shape |-> shape, order |-> "RGB"]

\* evaluate(model, env, n_eval_episodes, episode_length, video_rate)
Evaluate ==
    /\ UNCHANGED <<nbVars, penVars>>
    /\ pc = "idle"
    /\ \E n \in 0..MaxEpisodes, l \in 0..MaxLen, vr \in VideoRates :
        /\ n_eval_episodes' = n
        /\ episode_length' = l
        /\ video_rate' = vr
    /\ i' = 0
    /\ episodes_done' = 0
    /\ pc' = "for_i"
    /\ UNCHANGED <<video_length, step_, obs, done, img_array, env_calls,
                   calls, rendered, written, recorder, videos>>

\* for i in range(n_eval_episodes): img_array = []; obs = env.reset()
EpisodeStart ==
    /\ UNCHANGED <<nbVars, penVars>>
    /\ pc = "for_i"
    /\ LoopContinues(i, n_eval_episodes, FALSE)
    /\ img_array' = NewImgArray(img_array)
    /\ env_calls' = env_calls + 1
    /\ obs' = EnvObs(env_calls)
    /\ calls' = Append(calls, [op |-> "reset", arg |-> <<>>,
                               ret |-> EnvObs(env_calls)])
    /\ rendered' = Append(rendered, <<>>)
    /\ written' = Append(written, <<>>)
    /\ step_' = 0
    /\ done' = FALSE
    /\ pc' = "for_step"
    /\ UNCHANGED <<n_eval_episodes, episode_length, video_rate, video_length,
                   i, episodes_done, recorder, videos>>

\* one iteration of `for _step in tqdm(range(episode_length))`
EpisodeStep ==
    /\ UNCHANGED <<nbVars, penVars>>
    /\ pc = "for_step"
    /\ LoopContinues(step_, episode_length, done)
    /\ \E d \in BOOLEAN :
        LET action == Predict(obs)
            o      == EnvObs(env_calls)
        IN  /\ env_calls' = env_calls + 1
            /\ obs' = o
            /\ done' = d
            /\ calls' = calls \o
                 << [op |-> "predict", arg |-> obs, ret |-> action],
                    [op |-> "step", arg |-> action, ret |-> o] >>
    /\ IF video_rate # None
       THEN \E shape \in Shapes :
              LET img == Render(env_calls + 1, shape)
              IN  /\ rendered' = [rendered EXCEPT ![i + 1] = Append(@, img)]
                  /\ img_array' = IF KeepFrame(img)
                                  THEN Append(img_array, img)
                                  ELSE img_array
       ELSE UNCHANGED <<rendered, img_array>>
    /\ step_' = step_ + 1
    /\ UNCHANGED <<pc, n_eval_episodes, episode_length, video_rate,
                   video_length, i, episodes_done, written, recorder, videos>>

\* `if video_rate is not None` is false: episodic_rewards.append(...)
EpisodeSkipVideo ==
    /\ UNCHANGED <<nbVars, penVars>>
    /\ pc = "for_step"
    /\ ~LoopContinues(step_, episode_length, done)
    /\ video_rate = None
    /\ episodes_done' = episodes_done + 1
    /\ i' = i + 1
    /\ pc' = "for_i"
    /\ UNCHANGED <<n_eval_episodes, episode_length, video_rate, video_length,
                   step_, obs, done, img_array, env_calls, calls, rendered,
                   written, recorder, videos>>

\* `height, width, _ = img_array[-1].shape`: IndexError on an empty buffer
StartVideoWriter ==
    /\ UNCHANGED <<nbVars, penVars>>
    /\ pc = "for_step"
    /\ ~LoopContinues(step_, episode_length, done)
    /\ video_rate # None
    /\ pc' = IF img_array = <<>> THEN "raised" ELSE "write"
    /\ UNCHANGED <<n_eval_episodes, episode_length, video_rate, video_length,
                   i, step_, obs, done, img_array, episodes_done, env_calls,
                   calls, rendered, written, recorder, videos>>

\* for img in img_array: out.write(cvtColor(img)); ...; episodic_rewards.append
WriteVideo ==
    /\ UNCHANGED <<nbVars, penVars>>
    /\ pc = "write"
    /\ written' = [written EXCEPT ![i + 1] =
                     [k \in 1..Len(img_array) |-> cvtColor(img_array[k])]]
    /\ episodes_done' = episodes_done + 1
    /\ i' = i + 1
    /\ pc' = "for_i"
    /\ UNCHANGED <<n_eval_episodes, episode_length, video_rate, video_length,
                   step_, obs, done, img_array, env_calls, calls, rendered,
                   recorder, videos>>

\* the outer loop is exhausted: np.mean, print, return
EvaluateReturn ==
    /\ UNCHANGED <<nbVars, penVars>>
    /\ pc = "for_i"
    /\ ~LoopContinues(i, n_eval_episodes, FALSE)
    /\ pc' = "returned"
    /\ UNCHANGED <<n_eval_episodes, episode_length, video_rate, video_length,
                   i, step_, obs, done, img_array, episodes_done, env_calls,
                   calls, rendered, written, recorder, videos>>

----------------------------------------------------------------------------
\* record_video(env, model, video_length): the VecVideoRecorder wrapper is
\* built with record_video_trigger = lambda step: step == 0.

record_video_trigger(step) == step = 0

\* VecVideoRecorder.start_video_recorder: open a video, capture one frame
StartVideoRecorder(r, vs) ==
    [rec |-> [r EXCEPT !.recording = TRUE, !.recorded_frames = 1],
     vids |-> Append(vs, [start |-> r.step_id, frames |-> 1, open |-> TRUE])]

\* VecVideoRecorder.close_video_recorder
CloseVideoRecorder(r, vs) ==
    [rec |-> [r EXCEPT !.recording = FALSE, !.recorded_frames = 1],
     vids |-> IF r.recording
              THEN [vs EXCEPT ![Len(vs)].open = FALSE]
              ELSE vs]

\* VecVideoRecorder.step_wait, after the wrapped step: count the step, capture
\* a frame while recording and stop after video_length of them, else ask the
\* trigger whether to start
RecorderStepWait(r, vs) ==
    LET r1 == [r EXCEPT !.step_id = @ + 1]
    IN  IF r1.recording
        THEN LET r2  == [r1 EXCEPT !.recorded_frames = @ + 1]
                 vs2 == [vs EXCEPT ![Len(vs)].frames = @ + 1]
             IN  IF r2.recorded_frames > video_length
                 THEN CloseVideoRecorder(r2, vs2)
                 ELSE [rec |-> r2, vids |-> vs2]
        ELSE IF record_video_trigger(r1.step_id)
             THEN StartVideoRecorder(r1, vs)
             ELSE [rec |-> r1, vids |-> vs]

\* eval_env = VecVideoRecorder(DummyVecEnv([lambda: env]), ...)
RecordVideo ==
    /\ UNCHANGED <<nbVars, penVars>>
    /\ pc = "idle"
    /\ \E vl \in 0..MaxVideoLength : video_length' = vl
    /\ recorder' = [step_id |-> 0, recording |-> FALSE, recorded_frames |-> 0]
    /\ videos' = <<>>
    /\ pc' = "rv_reset"
    /\ UNCHANGED <<n_eval_episodes, episode_length, video_rate, i, step_, obs,
                   done, img_array, episodes_done, env_calls, calls, rendered,
                   written>>

\* obs = eval_env.reset()
RecordReset ==
    /\ UNCHANGED <<nbVars, penVars>>
    /\ pc = "rv_reset"
    /\ env_calls' = env_calls + 1
    /\ obs' = EnvObs(env_calls)
    /\ calls' = Append(calls, [op |-> "reset", arg |-> <<>>,
                               ret |-> EnvObs(env_calls)])
    /\ LET s == StartVideoRecorder(recorder, videos)
       IN  recorder' = s.rec /\ videos' = s.vids
    /\ step_' = 0
    /\ done' = FALSE
    /\ pc' = "rv_loop"
    /\ UNCHANGED <<n_eval_episodes, episode_length, video_rate, video_length,
                   i, img_array, episodes_done, rendered, written>>

\* one iteration of `for _ in range(video_length)`
RecordStep ==
    /\ UNCHANGED <<nbVars, penVars>>
    /\ pc = "rv_loop"
    /\ LoopContinues(step_, video_length, done)
    /\ \E d \in BOOLEAN :
        LET action == Predict(obs)
            o      == EnvObs(env_calls)
        IN  /\ env_calls' = env_calls + 1
            /\ obs' = o
            /\ done' = d
            /\ calls' = calls \o
                 << [op |-> "predict", arg |-> obs, ret |-> action],
                    [op |-> "step", arg |-> action, ret |-> o] >>
    /\ LET s == RecorderStepWait(recorder, videos)
       IN  recorder' = s.rec /\ videos' = s.vids
    /\ step_' = step_ + 1
    /\ UNCHANGED <<pc, n_eval_episodes, episode_length, video_rate,
                   video_length, i, img_array, episodes_done, rendered,
                   written>>

\* eval_env.close()
RecordClose ==
    /\ UNCHANGED <<nbVars, penVars>>
    /\ pc = "rv_loop"
    /\ ~LoopContinues(step_, video_length, done)
    /\ calls' = Append(calls, [op |-> "close", arg |-> <<>>, ret |-> <<>>])
    /\ LET s == CloseVideoRecorder(recorder, videos)
       IN  recorder' = s.rec /\ videos' = s.vids
    /\ pc' = "rv_returned"
    /\ UNCHANGED <<n_eval_episodes, episode_length, video_rate, video_length,
                   i, step_, obs, done, img_array, episodes_done, env_calls,
                   rendered, written>>

----------------------------------------------------------------------------
\* run_command, setup_notebook and deprecated_setup_notebook

MaxCalls == 2

ReturnCodes == {0, 1, 127}
Outputs == {"", "text"}
EnvNames == {"EAGERX_COLAB", "DISPLAY", "EAGERX_RELOAD", "ROS_PACKAGE_PATH"}
RosInstalls == {"noetic", "melodic", "other", "missing"}

\* the commands of setup_notebook
CmdXvfb == "apt-get install ffmpeg freeglut3-dev xvfb"
CmdGuiDeps == "pip install pyqt5 pyqtgraph"
CmdGuiColab == "pip install --ignore-requires-python --no-deps eagerx-gui"
CmdOpencv == "pip uninstall opencv-python && pip install opencv-python-headless"
CmdGui == "pip install eagerx-gui"

NoProc == [cmd |-> "", returncode |-> 0, output |-> "", raised |-> FALSE]

\* run_command(cmd) for a command that exits with rc having written out:
\* check_output raises CalledProcessError on a non-zero status; the handler
\* reports on stderr and re-raises; otherwise the output is printed.
RunCommandSwallows(cmd, rc, out) ==
    [raised |-> FALSE,
     stdout |-> IF rc = 0 THEN <<out>> ELSE << "None" >>,
     stderr |-> IF rc = 0 THEN <<>> ELSE << <<"ERROR", rc, cmd, out>> >>]
RunCommandPrintsAnyway(cmd, rc, out) ==
    [raised |-> rc # 0,
     stdout |-> <<out>>,
     stderr |-> IF rc = 0 THEN <<>> ELSE << <<"ERROR", rc, cmd, out>> >>]
RunCommand(cmd, rc, out) ==
    [raised |-> rc # 0,
     stdout |-> IF rc = 0 THEN <<out>> ELSE <<>>,
     stderr |-> IF rc = 0 THEN <<>> ELSE << <<"ERROR", rc, cmd, out>> >>]

SetEnv(name, value) == <<"setenv", name, value>>
Run(cmd) == <<"run", cmd>>
System(cmd) == <<"system", cmd>>

\* a notebook cell can call a set-up function when none is running
CanCall == nb_pc \in {"idle", "returned", "raised"} /\ ncalls < MaxCalls

\* setup_notebook(), up to `import eagerx_gui`
SetupNotebook ==
    /\ UNCHANGED <<vidVars, penVars>>
    /\ CanCall
    /\ nb_fn' = "setup_notebook"
    /\ ncalls' = ncalls + 1
    /\ reload_before' = environ["EAGERX_RELOAD"]
    /\ stderr' = <<>>
    /\ proc' = NoProc
    /\ \E imp \in BOOLEAN :
        /\ importable' = imp
        /\ IF on_colab
           THEN /\ stdout' = << "Running on CoLab." >>
                /\ environ' = [environ EXCEPT !["EAGERX_COLAB"] = "1"]
                /\ trace' = << SetEnv("EAGERX_COLAB", "1") >>
                /\ nb_pc' = IF imp THEN "set_reload" ELSE "install_xvfb"
           ELSE /\ stdout' = << "Not running on CoLab." >>
                /\ environ' = environ
                /\ trace' = <<>>
                /\ nb_pc' = IF imp THEN "set_reload" ELSE "install_gui"
    /\ UNCHANGED <<on_colab, processes, ros_calls>>

\* the effects of run_command(cmd) at position `at`, going to `next` when it
\* returns and leaving setup_notebook when it raises
RunStep(at, cmd, next) ==
    /\ nb_pc = at
    /\ \E rc \in ReturnCodes, out \in Outputs :
        LET r == RunCommand(cmd, rc, out)
        IN  /\ proc' = [cmd |-> cmd, returncode |-> rc, output |-> out,
                        raised |-> r.raised]
            /\ stdout' = stdout \o r.stdout
            /\ stderr' = stderr \o r.stderr
            /\ nb_pc' = IF r.raised THEN "raised" ELSE next

\* run_command(apt-get ...); os.system("Xvfb :1 ... &"); DISPLAY = ":1"
InstallXvfb ==
    /\ UNCHANGED <<vidVars, penVars>>
    /\ RunStep("install_xvfb", CmdXvfb, "install_deps")
    /\ IF nb_pc' = "raised"
       THEN /\ trace' = Append(trace, Run(CmdXvfb))
            /\ UNCHANGED <<environ, processes>>
       ELSE /\ trace' = trace \o << Run(CmdXvfb), System("Xvfb :1"),
                                    SetEnv("DISPLAY", ":1") >>
            /\ processes' = Append(processes, [prog |-> "Xvfb", alive |-> TRUE])
            /\ environ' = [environ EXCEPT !["DISPLAY"] = ":1"]
    /\ UNCHANGED <<nb_fn, on_colab, ncalls, importable, reload_before, ros_calls>>

\* run_command(pip install pyqt5 pyqtgraph)
InstallGuiDeps ==
    /\ UNCHANGED <<vidVars, penVars>>
    /\ RunStep("install_deps", CmdGuiDeps, "install_gui_colab")
    /\ trace' = Append(trace, Run(CmdGuiDeps))
    /\ UNCHANGED <<nb_fn, on_colab, ncalls, importable, environ, reload_before,
                   processes, ros_calls>>

\* run_command(pip install --ignore-requires-python --no-deps eagerx-gui)
InstallGuiColab ==
    /\ UNCHANGED <<vidVars, penVars>>
    /\ RunStep("install_gui_colab", CmdGuiColab, "install_opencv")
    /\ trace' = Append(trace, Run(CmdGuiColab))
    /\ UNCHANGED <<nb_fn, on_colab, ncalls, importable, environ, reload_before,
                   processes, ros_calls>>

\* run_command(pip uninstall ... && pip install opencv-python-headless)
InstallOpencv ==
    /\ UNCHANGED <<vidVars, penVars>>
    /\ RunStep("install_opencv", CmdOpencv, "set_reload")
    /\ trace' = Append(trace, Run(CmdOpencv))
    /\ UNCHANGED <<nb_fn, on_colab, ncalls, importable, environ, reload_before,
                   processes, ros_calls>>

\* not on Colab: run_command(pip install eagerx-gui)
InstallGui ==
    /\ UNCHANGED <<vidVars, penVars>>
    /\ RunStep("install_gui", CmdGui, "set_reload")
    /\ trace' = Append(trace, Run(CmdGui))
    /\ UNCHANGED <<nb_fn, on_colab, ncalls, importable, environ, reload_before,
                   processes, ros_calls>>

\* os.environ["EAGERX_RELOAD"] = "1", the last statement of setup_notebook
SetReload ==
    /\ UNCHANGED <<vidVars, penVars>>
    /\ nb_pc = "set_reload"
    /\ environ' = [environ EXCEPT !["EAGERX_RELOAD"] = "1"]
    /\ trace' = Append(trace, SetEnv("EAGERX_RELOAD", "1"))
    /\ nb_pc' = "returned"
    /\ UNCHANGED <<nb_fn, on_colab, ncalls, importable, reload_before, stdout,
                   stderr, proc, processes, ros_calls>>

\* Inside deprecated_setup_notebook the name roscore is assigned, so it is a
\* local of the call: whatever an earlier call started, the name is unbound
\* when roscore.terminate() is evaluated.
Unbound == [bound |-> FALSE]
RoscoreAtTerminate(started_before) == Unbound

\* subprocess.Popen.terminate() of the process with the given index
Terminate(ps, k) == [ps EXCEPT ![k].alive = FALSE]

\* deprecated_setup_notebook()
DeprecatedSetupNotebook ==
    /\ UNCHANGED <<vidVars, penVars>>
    /\ CanCall
    /\ nb_fn' = "deprecated_setup_notebook"
    /\ ncalls' = ncalls + 1
    /\ ros_calls' = ros_calls + 1
    /\ reload_before' = environ["EAGERX_RELOAD"]
    /\ importable' = FALSE
    /\ stderr' = <<>>
    /\ proc' = NoProc
    /\ \E ros \in RosInstalls :
        LET head  == IF on_colab
                     THEN << "Running on CoLab." >>
                     ELSE << "Not running on CoLab.",
                             "Execute ROS commands as \"!...\"." >>
            found == IF ros \in {"noetic", "melodic"}
                     THEN << <<"ROS available", ros>> >>
                     ELSE <<>>
            prev  == {k \in 1..Len(processes) :
                        processes[k].prog = "roscore" /\ processes[k].alive}
            name  == RoscoreAtTerminate(prev)
        IN  /\ environ' = IF on_colab
                          THEN [environ EXCEPT !["EAGERX_COLAB"] = "1",
                                               !["ROS_PACKAGE_PATH"] =
                                                   "/opt/ros/melodic/share/",
                                               !["EAGERX_RELOAD"] = "1"]
                          ELSE [environ EXCEPT !["EAGERX_RELOAD"] = "1"]
            /\ IF on_colab
               THEN IF name.bound
                    THEN /\ stdout' = head \o found \o << "Roscore restarted" >>
                         /\ processes' =
                              Append(Terminate(processes, name.index),
                                     [prog |-> "roscore", alive |-> TRUE])
                         /\ trace' = << SetEnv("EAGERX_COLAB", "1"),
                                        SetEnv("ROS_PACKAGE_PATH",
                                               "/opt/ros/melodic/share/"),
                                        SetEnv("EAGERX_RELOAD", "1"),
                                        <<"terminate", "roscore">>,
                                        <<"popen", "bash /root/roscore">> >>
                    ELSE /\ stdout' = head \o found \o << "Roscore started" >>
                         /\ processes' =
                              Append(processes,
                                     [prog |-> "roscore", alive |-> TRUE])
                         /\ trace' = << SetEnv("EAGERX_COLAB", "1"),
                                        SetEnv("ROS_PACKAGE_PATH",
                                               "/opt/ros/melodic/share/"),
                                        SetEnv("EAGERX_RELOAD", "1"),
                                        <<"popen", "bash /root/roscore">> >>
               ELSE /\ stdout' = head \o found
                    /\ processes' = processes
                    /\ trace' = << SetEnv("EAGERX_RELOAD", "1") >>
    /\ nb_pc' = "returned"
    /\ UNCHANGED on_colab

NbNext ==
    \/ SetupNotebook
    \/ InstallXvfb
    \/ InstallGuiDeps
    \/ InstallGuiColab
    \/ InstallOpencv
    \/ InstallGui
    \/ SetReload
    \/ DeprecatedSetupNotebook

VidNext ==
    \/ Evaluate
    \/ EpisodeStart
    \/ EpisodeStep
    \/ EpisodeSkipVideo
    \/ StartVideoWriter
    \/ WriteVideo
    \/ EvaluateReturn
    \/ RecordVideo
    \/ RecordReset
    \/ RecordStep
    \/ RecordClose

----------------------------------------------------------------------------
\* Pendulum: the object specification and its OdeBridge implementation

ImageRate == 15
DefaultRate == 30
DefaultRenderShape == <<480, 480>>

\* @register.sensors / @register.actuators / @register.engine_states
RegisteredSensors == {"angle_sensor", "image"}
RegisteredActuators == {"voltage"}
RegisteredStates == {"model_state"}

Names == {"pendulum", "pendulum_2"}
SensorArgs == {None, Some(<<>>), Some(<<"image">>),
               Some(<<"angle_sensor", "image">>)}
ActuatorArgs == {None, Some(<<>>), Some(<<"voltage">>)}
StateArgs == {None, Some(<<>>), Some(<<"model_state">>)}
RateArgs == {None, Some(1), Some(15), Some(60)}
ShapeArgs == {None, Some(<<>>), Some(<<240, 320>>)}

NoArgs == [name |-> "", actuators |-> None, sensors |-> None,
           states |-> None, rate |-> None, render_shape |-> None]
NoConfig == [name |-> "", sensors |-> <<>>, actuators |-> <<>>,
             states |-> <<>>, render_shape |-> <<>>]
NoRates == [angle_sensor |-> 0, image |-> 0, voltage |-> 0]

\* `x if x else default`: None and the empty list are falsy
OrDefaultOnlyIfNone(x, default) == IF x.some THEN x.val ELSE default
OrDefault(x, default) == IF x.some /\ x.val # <<>> THEN x.val ELSE default

\* the parameter default `rate: float = 30.`
RateOf(x) == IF x.some THEN x.val ELSE DefaultRate

\* Pendulum.agnostic(spec, rate): the rates it sets
AgnosticImageAtRate(rate) ==
    [angle_sensor |-> rate, image |-> rate, voltage |-> rate]
Agnostic(rate) ==
    [angle_sensor |-> rate, image |-> ImageRate, voltage |-> rate]

\* Pendulum.spec(spec, name, actuators, sensors, states, rate, render_shape)
PendulumSpec ==
    /\ UNCHANGED <<vidVars, nbVars>>
    /\ pen_pc = "new"
    /\ \E name \in Names, a \in ActuatorArgs, se \in SensorArgs,
          st \in StateArgs, r \in RateArgs, sh \in ShapeArgs :
        /\ args' = [name |-> name, actuators |-> a, sensors |-> se,
                    states |-> st, rate |-> r, render_shape |-> sh]
        /\ config' = [name |-> name,
                      sensors |-> OrDefault(se, <<"angle_sensor">>),
                      actuators |-> OrDefault(a, <<"voltage">>),
                      states |-> OrDefault(st, <<"model_state">>),
                      render_shape |-> OrDefault(sh, DefaultRenderShape)]
        /\ rates' = Agnostic(RateOf(r))
    /\ pen_pc' = "specified"
    /\ UNCHANGED <<nodes, connections>>

\* EngineNode.make(type, name, rate=...)
MakeNode(type, name, rate) == [type |-> type, name |-> name, rate |-> rate]

\* the engine nodes of ode_bridge, made with the rates found in the spec
BridgeNodesRenderAtSensorRate(r) ==
    {MakeNode("OdeOutput", "angle_sensor", r.angle_sensor),
     MakeNode("OdeRender", "image", r.angle_sensor),
     MakeNode("OdeInput", "pendulum_actuator", r.voltage)}
BridgeNodes(r) ==
    {MakeNode("OdeOutput", "angle_sensor", r.angle_sensor),
     MakeNode("OdeRender", "image", r.image),
     MakeNode("OdeInput", "pendulum_actuator", r.voltage)}

Output(node, name) == <<"output", node, name>>
Input(node, name) == <<"input", node, name>>
Sensor(name) == <<"sensor", name>>
Actuator(name) == <<"actuator", name>>

\* the graph.connect calls of ode_bridge
BridgeConnectionsImageUnwired ==
    << [source |-> Output("angle_sensor", "observation"),
        target |-> Sensor("angle_sensor")],
       [source |-> Output("angle_sensor", "observation"),
        target |-> Input("image", "observation")],
       [source |-> Output("pendulum_actuator", "action_applied"),
        target |-> Input("image", "action_applied")],
       [source |-> Actuator("voltage"),
        target |-> Input("pendulum_actuator", "action")] >>
BridgeConnections ==
    << [source |-> Output("angle_sensor", "observation"),
        target |-> Sensor("angle_sensor")],
       [source |-> Output("angle_sensor", "observation"),
        target |-> Input("image", "observation")],
       [source |-> Output("pendulum_actuator", "action_applied"),
        target |-> Input("image", "action_applied")],
       [source |-> Output("image", "image"),
        target |-> Sensor("image")],
       [source |-> Actuator("voltage"),
        target |-> Input("pendulum_actuator", "action")] >>

\* Pendulum.ode_bridge(spec, graph)
OdeBridge ==
    /\ UNCHANGED <<vidVars, nbVars>>
    /\ pen_pc = "specified"
    /\ nodes' = BridgeNodes(rates)
    /\ connections' = BridgeConnections
    /\ pen_pc' = "bridged"
    /\ UNCHANGED <<args, config, rates>>

PenNext ==
    \/ PendulumSpec
    \/ OdeBridge

----------------------------------------------------------------------------
\* The functions are called from a notebook one at a time: each specification
\* exercises one group of them while the state of the others rests.

InitVideo ==
    /\ pc = "idle"
    /\ n_eval_episodes = 0
    /\ episode_length = 0
    /\ video_rate = None
    /\ video_length = 0
    /\ i = 0
    /\ step_ = 0
    /\ obs = 0
    /\ done = FALSE
    /\ img_array = <<>>
    /\ episodes_done = 0
    /\ env_calls = 0
    /\ calls = <<>>
    /\ rendered = <<>>
    /\ written = <<>>
    /\ recorder = [step_id |-> 0, recording |-> FALSE, recorded_frames |-> 0]
    /\ videos = <<>>
    /\ nb_fn = "none"
    /\ nb_pc = "idle"
    /\ on_colab = FALSE
    /\ ncalls = 0
    /\ importable = FALSE
    /\ environ = [v \in EnvNames |-> "unset"]
    /\ reload_before = "unset"
    /\ trace = <<>>
    /\ stdout = <<>>
    /\ stderr = <<>>
    /\ proc = NoProc
    /\ processes = <<>>
    /\ ros_calls = 0
    /\ pen_pc = "new"
    /\ args = NoArgs
    /\ config = NoConfig
    /\ rates = NoRates
    /\ nodes = {}
    /\ connections = <<>>

InitNotebook ==
    /\ pc = "idle"
    /\ n_eval_episodes = 0
    /\ episode_length = 0
    /\ video_rate = None
    /\ video_length = 0
    /\ i = 0
    /\ step_ = 0
    /\ obs = 0
    /\ done = FALSE
    /\ img_array = <<>>
    /\ episodes_done = 0
    /\ env_calls = 0
    /\ calls = <<>>
    /\ rendered = <<>>
    /\ written = <<>>
    /\ recorder = [step_id |-> 0, recording |-> FALSE, recorded_frames |-> 0]
    /\ videos = <<>>
    /\ nb_fn = "none"
    /\ nb_pc = "idle"
    /\ on_colab \in BOOLEAN
    /\ ncalls = 0
    /\ importable = FALSE
    /\ environ = [v \in EnvNames |-> "unset"]
    /\ reload_before = "unset"
    /\ trace = <<>>
    /\ stdout = <<>>
    /\ stderr = <<>>
    /\ proc = NoProc
    /\ processes = <<>>
    /\ ros_calls = 0
    /\ pen_pc = "new"
    /\ args = NoArgs
    /\ config = NoConfig
    /\ rates = NoRates
    /\ nodes = {}
    /\ connections = <<>>

InitPendulum ==
    /\ pc = "idle"
    /\ n_eval_episodes = 0
    /\ episode_length = 0
    /\ video_rate = None
    /\ video_length = 0
    /\ i = 0
    /\ step_ = 0
    /\ obs = 0
    /\ done = FALSE
    /\ img_array = <<>>
    /\ episodes_done = 0
    /\ env_calls = 0
    /\ calls = <<>>
    /\ rendered = <<>>
    /\ written = <<>>
    /\ recorder = [step_id |-> 0, recording |-> FALSE, recorded_frames |-> 0]
    /\ videos = <<>>
    /\ nb_fn = "none"
    /\ nb_pc = "idle"
    /\ on_colab = FALSE
    /\ ncalls = 0
    /\ importable = FALSE
    /\ environ = [v \in EnvNames |-> "unset"]
    /\ reload_before = "unset"
    /\ trace = <<>>
    /\ stdout = <<>>
    /\ stderr = <<>>
    /\ proc = NoProc
    /\ processes = <<>>
    /\ ros_calls = 0
    /\ pen_pc = "new"
    /\ args = NoArgs
    /\ config = NoConfig
    /\ rates = NoRates
    /\ nodes = {}
    /\ connections = <<>>

SpecVideo == InitVideo /\ [][VidNext]_vars

SpecNotebook == InitNotebook /\ [][NbNext]_vars

SpecPendulum == InitPendulum /\ [][PenNext]_vars

----------------------------------------------------------------------------
\* Properties of evaluate and record_video

RECURSIVE EpisodeCalls(_, _)
\* the calls of one episode's first k steps, the reset having returned base + 1
EpisodeCalls(base, k) ==
    IF k = 0
    THEN << [op |-> "reset", arg |-> <<>>, ret |-> base + 1] >>
    ELSE EpisodeCalls(base, k - 1) \o
         << [op |-> "predict", arg |-> base + k,
             ret |-> <<"action", base + k>>],
            [op |-> "step", arg |-> <<"action", base + k>>,
             ret |-> base + k + 1] >>

RECURSIVE ExpectedCalls(_, _)
\* n episodes of l steps each, one after the other
ExpectedCalls(n, l) ==
    IF n = 0
    THEN <<>>
    ELSE ExpectedCalls(n - 1, l) \o EpisodeCalls((n - 1) * (l + 1), l)

EvaluateOver == pc \in {"returned", "raised"}

EvaluateReturnedDrivesEveryEpisode ==
    pc = "returned" => calls = ExpectedCalls(n_eval_episodes, episode_length)

\* a frame with no zero-sized dimension
NonEmptyFrame(img) ==
    img.shape[1] # 0 /\ img.shape[2] # 0 /\ img.shape[3] # 0

FrameIds(frames) == {frames[k].id : k \in 1..Len(frames)}

\* what the encoder is given for a frame: the frame in BGR channel order
Encoded(frames) ==
    [k \in 1..Len(frames) |->
        [id |-> frames[k].id, shape |-> frames[k].shape, order |-> "BGR"]]

\* C2: with video_rate not None, the frames written for an episode whose video
\* stage is over are exactly the frames rendered in that episode that have no
\* zero-sized dimension, in render order and once each (as BGR images);
\* nothing is written for an episode before that; no written frame was
\* rendered in another episode and none has a zero-sized dimension.
C2_VideoHoldsTheEpisodesFrames ==
    video_rate # None =>
        \A e \in 1..Len(written) :
            /\ (e <= episodes_done \/ pc = "raised")
                   => written[e] = Encoded(SelectSeq(rendered[e], NonEmptyFrame))
            /\ (e > episodes_done /\ pc # "raised") => written[e] = <<>>
            /\ \A k \in 1..Len(written[e]) : NonEmptyFrame(written[e][k])
            /\ \A f \in 1..Len(rendered) :
                   f # e => FrameIds(written[e]) \cap FrameIds(rendered[f]) = {}

\* C2 witness: two episodes have their videos written, the second following
\* an episode that rendered a zero-sized frame as well as a proper one.
C2_Witness ==
    /\ video_rate # None
    /\ episodes_done = 2
    /\ Len(written[1]) = 1
    /\ Len(rendered[1]) = 2
    /\ Len(written[2]) = 2

\* C8: with video_rate not None the frame buffer is not empty when the video
\* writer reads the shape of its last frame, so no episode fails there.
C8_FrameBufferNeverEmpty ==
    /\ (/\ pc = "for_step"
        /\ ~LoopContinues(step_, episode_length, done)
        /\ video_rate # None) => img_array # <<>>
    /\ pc # "raised"

\* the calls of record_video's reset and first k steps
RecordCalls(k) == EpisodeCalls(0, k)

----------------------------------------------------------------------------
\* Properties of run_command, setup_notebook and deprecated_setup_notebook

IsPrefix(a, b) == Len(a) <= Len(b) /\ \A k \in 1..Len(a) : a[k] = b[k]

\* the commands run_command was given in this call
Runs == {k \in 1..Len(trace) : trace[k][1] = "run"}

\* C4: run_command prints the command's output and returns normally if and
\* only if the command exits with status 0; on another status it reports the
\* return code, the command and the output on stderr, raises to its caller
\* (setup_notebook is left) and prints nothing on stdout.
C4_RunCommandOutcome ==
    (nb_fn = "setup_notebook" /\ proc.cmd # "") =>
        /\ proc.returncode = 0 =>
              /\ nb_pc # "raised"
              /\ Len(stdout) = 1 + Cardinality(Runs)
              /\ stdout[Len(stdout)] = proc.output
              /\ stderr = <<>>
        /\ proc.returncode # 0 =>
              /\ nb_pc = "raised"
              /\ Len(stdout) = Cardinality(Runs)
              /\ stderr = << <<"ERROR", proc.returncode, proc.cmd,
                               proc.output>> >>

\* C4 witness: a command exited with status 127 after an earlier one exited
\* with 0 and had its output printed.
C4_Witness ==
    /\ nb_fn = "setup_notebook"
    /\ nb_pc = "raised"
    /\ proc.returncode = 127
    /\ proc.output = "text"
    /\ Cardinality(Runs) = 2
    /\ Len(stdout) = 2

ColabOrder ==
    << <<"setenv", "EAGERX_COLAB", "1">>,
       <<"run", "apt-get install ffmpeg freeglut3-dev xvfb">>,
       <<"system", "Xvfb :1">>,
       <<"setenv", "DISPLAY", ":1">>,
       <<"run", "pip install pyqt5 pyqtgraph">>,
       <<"run", "pip install --ignore-requires-python --no-deps eagerx-gui">>,
       <<"run",
         "pip uninstall opencv-python && pip install opencv-python-headless">>,
       <<"setenv", "EAGERX_RELOAD", "1">> >>

\* C5: on Colab with eagerx_gui not importable, setup_notebook performs its
\* steps in the order of ColabOrder; when an install command fails the call
\* is left with an error at that command, nothing after it is done, the step
\* setting EAGERX_RELOAD is not taken and the variable keeps the value it had
\* before the call. With eagerx_gui importable no command is run and
\* EAGERX_RELOAD is set to 1.
C5_ColabBootstrapOrder ==
    (nb_fn = "setup_notebook" /\ on_colab) =>
        IF importable
        THEN /\ Runs = {}
             /\ nb_pc # "raised"
             /\ nb_pc = "returned" =>
                   /\ trace = << <<"setenv", "EAGERX_COLAB", "1">>,
                                 <<"setenv", "EAGERX_RELOAD", "1">> >>
                   /\ environ["EAGERX_RELOAD"] = "1"
        ELSE /\ IsPrefix(trace, ColabOrder)
             /\ nb_pc = "returned" =>
                   /\ trace = ColabOrder
                   /\ environ["EAGERX_RELOAD"] = "1"
             /\ nb_pc # "raised" => proc.returncode = 0
             /\ nb_pc = "raised" =>
                   /\ proc.returncode # 0
                   /\ trace[Len(trace)] = <<"run", proc.cmd>>
                   /\ \A k \in 1..Len(trace) :
                         trace[k] # <<"setenv", "EAGERX_RELOAD", "1">>
                   /\ environ["EAGERX_RELOAD"] = reload_before

\* C5 witness: on Colab, without eagerx_gui, the opencv reinstall failed after
\* the three installs before it succeeded.
C5_Witness ==
    /\ nb_fn = "setup_notebook"
    /\ on_colab
    /\ ~importable
    /\ nb_pc = "raised"
    /\ Len(trace) = 7
    /\ environ["DISPLAY"] = ":1"
    /\ environ["EAGERX_RELOAD"] = "unset"

\* the roscore processes started in this session that are still running
RunningRoscores ==
    {k \in 1..Len(processes) :
        processes[k].prog = "roscore" /\ processes[k].alive}

\* C9: on Colab every call of deprecated_setup_notebook after the first
\* terminates the roscore of the call before it and reports "Roscore
\* restarted", so at most one roscore it launched is running.
C9_AtMostOneRoscore ==
    on_colab =>
        /\ Cardinality(RunningRoscores) <= 1
        /\ (nb_fn = "deprecated_setup_notebook" /\ ros_calls >= 2) =>
              \E k \in 1..Len(stdout) : stdout[k] = "Roscore restarted"

----------------------------------------------------------------------------
\* Properties of Pendulum

NonEmptyList(x) == x.some /\ Len(x.val) > 0

\* what a configuration field must hold for argument x
Configured(x, value, default) ==
    /\ NonEmptyList(x) => value = x.val
    /\ ~NonEmptyList(x) => value = default

\* C6: after Pendulum.spec, each of sensors, actuators, states and
\* render_shape equals the caller's argument when that is a non-empty list and
\* the default when it is None or an empty list; name is the caller's name.
C6_SpecFillsConfig ==
    pen_pc # "new" =>
        /\ config.name = args.name
        /\ Configured(args.sensors, config.sensors, <<"angle_sensor">>)
        /\ Configured(args.actuators, config.actuators, <<"voltage">>)
        /\ Configured(args.states, config.states, <<"model_state">>)
        /\ Configured(args.render_shape, config.render_shape, <<480, 480>>)

\* C6 witness: sensors given as an empty list, render_shape as a non-empty
\* one, actuators not given.
C6_Witness ==
    /\ pen_pc = "specified"
    /\ args.sensors = Some(<<>>)
    /\ args.render_shape = Some(<<240, 320>>)
    /\ args.actuators = None
    /\ config.sensors = <<"angle_sensor">>
    /\ config.render_shape = <<240, 320>>

\* the rate Pendulum.spec was called with
GivenRate == IF args.rate.some THEN args.rate.val ELSE 30

NodeRates(type) == {n.rate : n \in {m \in nodes : m.type = type}}

ConnectionsTo(target) ==
    {k \in 1..Len(connections) : connections[k].target = target}
ConnectionsFrom(source) ==
    {k \in 1..Len(connections) : connections[k].source = source}

\* C7: the angle_sensor sensor and the voltage actuator run at the rate given
\* to Pendulum.spec and the image sensor at 15; ode_bridge makes OdeOutput,
\* OdeInput and OdeRender with exactly those rates; each registered sensor is
\* fed by exactly one connection, from an engine-node output, and the voltage
\* actuator feeds exactly one connection, into an engine-node input.
C7_RatesAndWiring ==
    /\ pen_pc # "new" =>
          /\ rates.angle_sensor = GivenRate
          /\ rates.voltage = GivenRate
          /\ rates.image = 15
    /\ pen_pc = "bridged" =>
          /\ NodeRates("OdeOutput") = {GivenRate}
          /\ NodeRates("OdeInput") = {GivenRate}
          /\ NodeRates("OdeRender") = {15}
          /\ \A s \in {"angle_sensor", "image"} :
                /\ Cardinality(ConnectionsTo(<<"sensor", s>>)) = 1
                /\ \A k \in ConnectionsTo(<<"sensor", s>>) :
                      /\ connections[k].source[1] = "output"
                      /\ \E n \in nodes : n.name = connections[k].source[2]
          /\ Cardinality(ConnectionsFrom(<<"actuator", "voltage">>)) = 1
          /\ \A k \in ConnectionsFrom(<<"actuator", "voltage">>) :
                /\ connections[k].target[1] = "input"
                /\ \E n \in nodes : n.name = connections[k].target[2]

\* C7 witness: the bridge is wired for a pendulum specified at rate 60.
C7_Witness ==
    /\ pen_pc = "bridged"
    /\ args.rate = Some(60)
    /\ Cardinality(nodes) = 3
====
